---- MODULE Spec2Model ----
(***************************************************************************)
(* Model of flexget/feed.py: the Feed controller (execute, __run_phase,    *)
(* accept / reject / fail / abort / purge, validate) as a sequential       *)
(* program with an explicit call stack.  Plugins are external code: a      *)
(* plugin invocation is a frame on the stack that makes a bounded number   *)
(* of calls back into the feed and then returns or raises.                 *)
(* An Entry (the dict with the url / original_url handling) is followed on  *)
(* its own, under EntrySpec.                                               *)
(***************************************************************************)
EXTENDS Integers, Sequences, FiniteSets, TLC

VARIABLES
    unit_test,          \* manager.unit_test
    validate_opt,       \* manager.options.validate
    config,             \* self.config
    _rerun_count,       \* self._rerun_count
    session,            \* self.session: 0 is None, else an index into sessions
    entries,            \* self.entries
    accepted,           \* self.accepted
    rejected,           \* self.rejected
    failed,             \* self.failed
    disabled_phases,    \* self.disabled_phases
    _abort,             \* self._abort
    _rerun,             \* self._rerun
    current_phase,      \* self.current_phase
    current_plugin,     \* self.current_plugin
    immortal,           \* the entries whose 'immortal' field is set
    trace,              \* entry.trace of every entry
    stack,              \* the call stack, innermost frame last
    exc,                \* the exception in flight, "none" when there is none
    errors,             \* execute's local `errors`
    arg_disable_phases, \* execute's argument disable_phases
    arg_entries,        \* execute's argument entries
    sessions,           \* the Session objects created by the running call
    completed,          \* feed.execute.completed events fired by the running call
    ran,                \* plugin keywords invoked so far in the current pass
    ops,                \* calls plugins made into the feed in the current pass
    last_call,          \* the latest of these calls: <<method, argument>>
    outcome,            \* how the last top-level execute call ended
    startCount,         \* _rerun_count when the top-level call was made
    passes,             \* passes started by the top-level call
    everyRerun,         \* every pass of the call ended asking for a rerun
    fields,             \* the dict of one Entry: its keys and their values
    first_url,          \* the first value its 'url' key ever held
    entry_exc           \* the error its last __setitem__ raised, "none" if none

vars == <<unit_test, validate_opt, config, _rerun_count, session, entries,
          accepted, rejected, failed, disabled_phases, _abort, _rerun,
          current_phase, current_plugin, immortal, trace, stack, exc, errors,
          arg_disable_phases, arg_entries, sessions, completed, ran, ops,
          last_call, outcome, startCount, passes, everyRerun,
          fields, first_url, entry_exc>>

\* the fields of the Feed and of its running call
feedVars == <<unit_test, validate_opt, config, _rerun_count, session, entries,
              accepted, rejected, failed, disabled_phases, _abort, _rerun,
              current_phase, current_plugin, immortal, trace, stack, exc,
              errors, arg_disable_phases, arg_entries, sessions, completed,
              ran, ops, last_call, outcome, startCount, passes, everyRerun>>

\* the Entry whose fields are followed
entryVars == <<fields, first_url, entry_exc>>

listVars == <<entries, accepted, rejected, failed>>

ctlVars == <<disabled_phases, _abort, _rerun, current_phase, current_plugin>>

callVars == <<sessions, completed, outcome, startCount, passes, everyRerun>>

passVars == <<errors, ran, ops, last_call>>

envVars == <<unit_test, validate_opt, config, immortal, entryVars>>

argVars == <<arg_disable_phases, arg_entries>>

----------------------------------------------------------------------------
(* Bounds of the model *)

\* calls the plugins of one pass make into the feed
MaxOps == 2

----------------------------------------------------------------------------
(* Program constants *)

max_reruns == 5

None == "None"

entry_events == {"accept", "reject", "fail"}

----------------------------------------------------------------------------
(* The plugin registry (flexget.plugin) and the inputs *)

feed_phases == <<"input", "filter", "output">>

\* get_methods_by_phase(phase): the keywords of the phase's methods, in order
get_methods_by_phase(phase) ==
    CASE phase = "input"  -> <<"inp">>
      [] phase = "filter" -> <<"flt", "seen">>
      [] phase = "output" -> <<"out">>
      [] phase = "accept" -> <<"on_acc", "acc_log">>
      [] phase = "reject" -> <<"rej_log", "on_rej">>
      [] phase = "fail"   -> <<"on_fail">>
      [] phase = "abort"  -> <<"on_abort", "abort_log">>
      [] OTHER            -> <<>>

\* method.plugin.builtin; the builtin methods are of api_ver 1: they take the
\* feed only (line 360) and do not read self.config
builtin == {"seen", "rej_log", "on_fail", "abort_log"}

\* get_plugin_by_name succeeds for these keywords
known_plugins == {"inp", "flt", "seen", "out", "on_acc", "acc_log", "rej_log",
                  "on_rej", "on_fail", "on_abort", "abort_log"}

\* what the method of each plugin may do with the feed while it runs
Repertoire(keyword) ==
    CASE keyword = "inp"       -> {"response", "raise"}
      [] keyword = "flt"       -> {"accept", "reject", "fail", "abort",
                                   "disable_phase", "raise"}
      [] keyword = "seen"      -> {"reject"}
      [] keyword = "out"       -> {"abort", "rerun", "raise"}
      [] keyword = "on_acc"    -> {"raise"}
      [] keyword = "on_rej"    -> {"abort"}
      [] keyword = "on_abort"  -> {"abort", "raise"}
      [] OTHER                 -> {}

\* the order in which validate_config walks the keys of a configuration
Keywords == <<"_meta", "inp", "flt", "out", "on_acc", "on_rej", "on_abort",
              "nosuch">>

Entries == {"e1", "e2"}

\* "ok": the plugin's validator accepts the sub-configuration, "bad": it does not
GoodConfig ==
    [isdict |-> TRUE,
     items  |-> [k \in {"_meta", "inp", "flt", "out", "on_acc", "on_rej", "on_abort"} |-> "ok"]]

BadConfig ==
    [isdict |-> TRUE,
     items  |-> [k \in {"_meta", "inp", "flt", "on_abort", "nosuch"} |->
                    IF k = "flt" THEN "bad" ELSE "ok"]]

\* a configuration that is a list, not a dictionary
NotDictConfig == [isdict |-> FALSE, items |-> <<>>]

Configs == {GoodConfig, BadConfig, NotDictConfig}

\* keyword in self.config
InConfig(keyword) == config.isdict /\ keyword \in DOMAIN config.items

----------------------------------------------------------------------------
(* Lists *)

InList(x, s) == \E i \in 1..Len(s) : s[i] = x

\* list.remove(x): drops the first occurrence of x
ListRemove(s, x) ==
    LET i == CHOOSE k \in 1..Len(s) : s[k] = x /\ \A j \in 1..(k - 1) : s[j] # x
    IN  SubSeq(s, 1, i - 1) \o SubSeq(s, i + 1, Len(s))

NoDuplicates(s) == \A i, j \in 1..Len(s) : s[i] = s[j] => i = j

----------------------------------------------------------------------------
(* Entry: a dict whose __setitem__ checks and converts the values *)

\* the values given to an Entry: unicode strings, byte strings (one of them
\* not decodable) and a value that is no string
Unicode(val) == [type |-> "unicode", val |-> val]

Str(val) == [type |-> "str", val |-> val]

NotAString == [type |-> "int", val |-> "7"]

\* no value: the key never held one
NoValue == [type |-> "none", val |-> ""]

Values == {Unicode("a"), Unicode("b"), Str("a"), Str("\\xff"), NotAString}

Keys == {"title", "url", "description"}

\* unicode(value) succeeds
Decodable(value) == value.val # "\\xff"

\* isinstance(value, basestring)
IsBasestring(value) == value.type \in {"str", "unicode"}

\* dict.__setitem__(d, key, value)
Put(d, key, value) ==
    [k \in DOMAIN d \cup {key} |-> IF k = key THEN value ELSE d[k]]

\* lines 45-47: a byte string is converted
Converted(value) ==
    IF value.type = "str" THEN Unicode(value.val) ELSE value

\* the error __setitem__(key, value) raises, "none" if it raises none
SetItemError(key, value) ==
    IF value.type = "str" /\ ~Decodable(value) THEN "EntryUnicodeError"
    ELSE IF key \in {"url", "title"} /\ ~IsBasestring(Converted(value))
        THEN "PluginError"
    ELSE "none"

\* line 56
KeepsOriginal(d) == "original_url" \in DOMAIN d

\* the dict after a __setitem__(key, value) that raises no error
SetItem(d, key, value) ==
    LET v  == Converted(value)
        d1 == IF key = "url" /\ ~KeepsOriginal(d)
              THEN Put(d, "original_url", v) ELSE d
    IN  Put(d1, key, v)

\* the dict after Entry(title, url): dict.__init__ stores the two values as
\* they are, without a call of __setitem__
Entry2(title, url) == Put(Put(<<>>, "title", title), "url", url)

\* the dicts of new entries: Entry() and Entry(title, url)
NewEntries == {<<>>} \cup {Entry2(t, u) : t \in {Unicode("a")}, u \in Values}

----------------------------------------------------------------------------
(* Feed.purge *)

RECURSIVE __purge(_, _)
\* for entry in purge_what: if entry in purge_from: purge_from.remove(entry)
__purge(purge_what, purge_from) ==
    IF purge_what = <<>> THEN purge_from
    ELSE LET entry == Head(purge_what)
         IN  __purge(Tail(purge_what),
                     IF InList(entry, purge_from)
                     THEN ListRemove(purge_from, entry)
                     ELSE purge_from)

\* the three lists after __purge_failed
__purge_failed(f) ==
    [entries  |-> __purge(f.failed, f.entries),
     rejected |-> __purge(f.failed, f.rejected),
     accepted |-> __purge(f.failed, f.accepted),
     failed   |-> f.failed]

\* the three lists after __purge_rejected
__purge_rejected(f) ==
    [entries  |-> __purge(f.rejected, f.entries),
     rejected |-> f.rejected,
     accepted |-> __purge(f.rejected, f.accepted),
     failed   |-> f.failed]

\* purge(): failed first, then rejected
purge(f) == __purge_rejected(__purge_failed(f))

Lists == [entries |-> entries, rejected |-> rejected, accepted |-> accepted,
          failed |-> failed]

----------------------------------------------------------------------------
(* Feed.validate_config *)

startswith_underscore(keyword) == keyword \in {"_meta"}

RECURSIVE validate_keys(_, _, _)
\* the loop over the keys of a dictionary configuration
validate_keys(items, keys, validate_errors) ==
    IF keys = <<>> THEN validate_errors
    ELSE LET keyword == Head(keys)
             rest    == Tail(keys)
         IN  IF keyword \notin DOMAIN items
                 THEN validate_keys(items, rest, validate_errors)
             ELSE IF startswith_underscore(keyword)
                 THEN validate_keys(items, rest, validate_errors)
             ELSE IF keyword \notin known_plugins
                 THEN validate_keys(items, rest,
                          Append(validate_errors, <<"Unknown plugin", keyword>>))
             ELSE IF items[keyword] # "ok"
                 THEN validate_keys(items, rest,
                          Append(validate_errors, <<keyword, "invalid value">>))
             ELSE validate_keys(items, rest, validate_errors)

validate_config(cfg) ==
    IF ~cfg.isdict THEN << <<"Config is not a dictionary.", "">> >>
    ELSE validate_keys(cfg.items, Keywords, <<>>)

----------------------------------------------------------------------------
(* Frames of the call stack *)

Frame(fn, pc, phase, idx, entry, kind) ==
    [fn |-> fn, pc |-> pc, phase |-> phase, idx |-> idx, entry |-> entry,
     kind |-> kind]

ExecuteFrame == Frame("execute", "validate", None, 1, None, None)

\* a call of __run_phase(phase, entry)
RunPhaseFrame(phase, entry) == Frame("run_phase", "loop", phase, 1, entry, None)

PluginFrame(phase, idx, entry) == Frame("plugin", "body", phase, idx, entry, None)

Top == stack[Len(stack)]

Pop(stk) == SubSeq(stk, 1, Len(stk) - 1)

\* the stack with its top frame replaced
SetTop(stk, frame) == [stk EXCEPT ![Len(stk)] = frame]

Running(fn, pc) ==
    /\ stack # <<>>
    /\ Top.fn = fn
    /\ Top.pc = pc

IsPhase(phase) == \E i \in 1..Len(feed_phases) : feed_phases[i] = phase

----------------------------------------------------------------------------
(* Feed._reset, Feed.disable_phase and the head of Feed.execute *)

\* the fields _reset assigns; _rerun_count is not among them
_reset ==
    [session |-> 0, entries |-> <<>>, accepted |-> <<>>, rejected |-> <<>>,
     failed |-> <<>>, disabled_phases |-> <<>>, _abort |-> FALSE,
     _rerun |-> FALSE, current_phase |-> None, current_plugin |-> None]

\* disable_phase(phase) for a valid phase
disable_phase(disabled, phase) ==
    IF InList(phase, disabled) THEN disabled ELSE Append(disabled, phase)

RECURSIVE map_disable_phase(_, _)
\* map(self.disable_phase, disable_phases), up to the first invalid phase
map_disable_phase(disabled, phases) ==
    IF phases = <<>> \/ ~IsPhase(Head(phases)) THEN disabled
    ELSE map_disable_phase(disable_phase(disabled, Head(phases)), Tail(phases))

AllValid(phases) == \A i \in 1..Len(phases) : IsPhase(phases[i])

\* execute, lines 416-425.  The entries of a pass are new Entry objects (the
\* input plugin makes them), so their traces start empty
BeginPass(disable, ents) ==
    LET r  == _reset
        d1 == map_disable_phase(r.disabled_phases, disable)
    IN  /\ session' = r.session
        /\ accepted' = r.accepted
        /\ rejected' = r.rejected
        /\ failed' = r.failed
        /\ _abort' = r._abort
        /\ _rerun' = r._rerun
        /\ current_phase' = r.current_phase
        /\ current_plugin' = r.current_plugin
        /\ disabled_phases' = IF AllValid(disable) /\ ents # <<>>
                              THEN disable_phase(d1, "input") ELSE d1
        /\ entries' = IF AllValid(disable) /\ ents # <<>>
                      THEN r.entries \o ents ELSE r.entries
        /\ trace' = [e \in Entries |-> <<>>]
        /\ errors' = <<>>
        /\ ran' = {}
        /\ ops' = 0
        /\ last_call' = <<>>

----------------------------------------------------------------------------
(* Session objects (flexget.manager.Session) *)

NewSession == [committed |-> FALSE, closed |-> FALSE]

SessionCommit(ss, s) == [ss EXCEPT ![s].committed = TRUE]

\* a close that does nothing
SessionClose_forgotten(ss, s) == ss

\* a close on the rollback paths only: a committed session stays open
SessionClose_uncommitted(ss, s) ==
    IF ss[s].committed THEN ss ELSE [ss EXCEPT ![s].closed = TRUE]

SessionClose(ss, s) == [ss EXCEPT ![s].closed = TRUE]

----------------------------------------------------------------------------
(* Feed.__run_phase and Feed.abort, as functions of the control state *)

\* the part of the state a call of __run_phase or abort changes at once
Ctl == [stack |-> stack, _abort |-> _abort, current_phase |-> current_phase,
        current_plugin |-> current_plugin, ran |-> ran]

SetCtl(c) ==
    /\ stack' = c.stack
    /\ _abort' = c._abort
    /\ current_phase' = c.current_phase
    /\ current_plugin' = c.current_plugin
    /\ ran' = c.ran

\* Ctl with the top frame of the stack replaced
WithTop(c, frame) == [c EXCEPT !.stack = SetTop(@, frame)]

\* lines 337 and 444 left out: a disabled phase runs like the others
PhaseDisabled_never(phase) == FALSE

\* lines 337 and 444: phase in self.disabled_phases
PhaseDisabled(phase) == InList(phase, disabled_phases)

\* line 340 left out: every registered method runs
Selected_any(keyword) == TRUE

\* line 340
Selected(keyword) == InConfig(keyword) \/ keyword \in builtin

RECURSIVE NextMethod(_, _)
\* the first method at or after idx that line 340 lets run
NextMethod(phase, idx) ==
    IF idx > Len(get_methods_by_phase(phase)) THEN idx
    ELSE IF Selected(get_methods_by_phase(phase)[idx]) THEN idx
    ELSE NextMethod(phase, idx + 1)

\* lines 335-364: the for loop of the run_phase frame on top, from the method
\* at its idx on, up to the call of the next method or the end of the loop
run_methods(c) ==
    LET top     == c.stack[Len(c.stack)]
        methods == get_methods_by_phase(top.phase)
        j       == NextMethod(top.phase, top.idx)
    IN  IF j > Len(methods) \/ PhaseDisabled(top.phase)
        THEN [c EXCEPT !.stack = Pop(@)]
        ELSE [c EXCEPT
                !.stack = Append(SetTop(@, [top EXCEPT !.pc = "called", !.idx = j]),
                                 PluginFrame(top.phase, j, top.entry)),
                !.current_phase = IF top.phase \in entry_events THEN @ ELSE top.phase,
                !.current_plugin = IF top.phase \in entry_events THEN @ ELSE methods[j],
                !.ran = @ \cup {methods[j]}]

\* a call self.__run_phase(phase, entry)
__run_phase(c, phase, entry) ==
    run_methods([c EXCEPT !.stack = Append(@, RunPhaseFrame(phase, entry))])

\* lines 268-269 left out: every call of abort runs the abort phase
do_abort_again(c) == __run_phase([c EXCEPT !._abort = TRUE], "abort", None)

\* a call self.abort()
do_abort(c) ==
    IF c._abort THEN c
    ELSE __run_phase([c EXCEPT !._abort = TRUE], "abort", None)

\* lines 395-397: the lists after the purge between plugins
PurgeAfter(phase, f) == IF phase \in entry_events THEN f ELSE purge(f)

SetLists(f) ==
    /\ entries' = f.entries
    /\ accepted' = f.accepted
    /\ rejected' = f.rejected
    /\ failed' = f.failed

\* line 399 left out: the loop goes on after an abort
AbortCheck_never(phase) == FALSE

\* line 399 without its test of the phase
AbortCheck_any(phase) == _abort

\* line 399
AbortCheck(phase) == _abort /\ phase # "abort"

\* lines 398-400: after the purge, return or go on with the next method
CheckAbort ==
    /\ Running("run_phase", "check")
    /\ IF AbortCheck(Top.phase)
       THEN SetCtl([Ctl EXCEPT !.stack = Pop(@)])
       ELSE SetCtl(run_methods(WithTop(Ctl, [Top EXCEPT !.pc = "loop", !.idx = @ + 1])))
    /\ UNCHANGED <<envVars, argVars, listVars, callVars, errors, ops, last_call,
                   disabled_phases, _rerun, _rerun_count, trace, session, exc>>

\* the except clause that catches an error of this kind: only the last one,
\* lines 388-393, goes on after self.abort()
Clause(kind) == IF kind = "Exception" THEN "Exception" ELSE "PluginError"

\* the clause of lines 381-383 logs the error and leaves out self.abort()
Catch_lenient(c, kind) ==
    LET top == c.stack[Len(c.stack)]
    IN  IF kind \in {"PluginWarning", "PluginError"}
        THEN WithTop(c, [top EXCEPT !.pc = "check", !.kind = kind])
        ELSE do_abort(WithTop(c, [top EXCEPT !.pc = "handler", !.kind = Clause(kind)]))

\* lines 370-390: an error of this kind reaches the try block of the
\* run_phase frame on top of c; the frame keeps the error its clause bound
Catch(c, kind) ==
    LET top == c.stack[Len(c.stack)]
    IN  IF kind = "PluginWarning"
        THEN WithTop(c, [top EXCEPT !.pc = "check", !.kind = kind])
        ELSE do_abort(WithTop(c, [top EXCEPT !.pc = "handler", !.kind = Clause(kind)]))

\* the lists once the error is caught: a warning goes straight to the purge
CatchLists(phase, kind) ==
    IF kind = "PluginWarning" THEN PurgeAfter(phase, Lists) ELSE Lists

\* line 392 left out: the last clause always re-raises
Reraises_always(kind) == kind = "Exception"

\* lines 388-393: only the last clause re-raises, and only in strict mode
Reraises(kind) == kind = "Exception" /\ unit_test

\* self.abort() of an except clause is over; lines 391-397
HandlerDone ==
    /\ Running("run_phase", "handler")
    /\ exc = "none"
    /\ IF Reraises(Top.kind)
       THEN /\ stack' = Pop(stack)
            /\ exc' = "Exception"
            /\ UNCHANGED listVars
       ELSE /\ stack' = SetTop(stack, [Top EXCEPT !.pc = "check"])
            /\ exc' = exc
            /\ SetLists(PurgeAfter(Top.phase, Lists))
    /\ UNCHANGED <<envVars, argVars, ctlVars, passVars, callVars,
                   _rerun_count, trace, session>>

\* an error raised inside an except clause leaves __run_phase
HandlerRaise ==
    /\ Running("run_phase", "handler")
    /\ exc # "none"
    /\ stack' = Pop(stack)
    /\ UNCHANGED <<envVars, argVars, listVars, ctlVars, passVars, callVars,
                   _rerun_count, trace, session, exc>>

----------------------------------------------------------------------------
(* Feed.validate and Feed.execute *)

\* line 494 left out: validate reports the errors and does not abort
HasErrors_ignored(errs) == FALSE

\* line 494
HasErrors(errs) == errs # <<>>

\* errors = self.validate()
validate ==
    /\ Running("execute", "validate")
    /\ exc = "none"
    /\ errors' = validate_config(config)
    /\ LET c == WithTop(Ctl, [Top EXCEPT !.pc = "validated"])
       IN  IF HasErrors(errors') THEN SetCtl(do_abort(c)) ELSE SetCtl(c)
    /\ UNCHANGED <<envVars, argVars, callVars, listVars, session, ops, last_call,
                   disabled_phases, _rerun, _rerun_count, trace, exc>>

\* a top-level call execute(disable_phases=disable, entries=ents)
execute(disable, ents) ==
    /\ stack = <<>>
    /\ arg_disable_phases' = disable
    /\ arg_entries' = ents
    /\ BeginPass(disable, ents)
    /\ sessions' = <<>>
    /\ completed' = 0
    /\ startCount' = _rerun_count
    /\ passes' = 1
    /\ everyRerun' = AllValid(disable)
    /\ exc' = "none"
    /\ IF AllValid(disable)
       THEN /\ stack' = <<ExecuteFrame>>
            /\ outcome' = "running"
       ELSE /\ stack' = <<>>
            /\ outcome' = "raised"
    /\ UNCHANGED <<envVars, _rerun_count>>

\* the execute frame on top ends; how is "returned" or "raised"
ExitExecute(how, e) ==
    /\ stack' = Pop(stack)
    /\ IF Len(stack) = 1
       THEN /\ outcome' = how
            /\ exc' = "none"
       ELSE /\ outcome' = outcome
            /\ exc' = e

\* lines 429-439
AfterValidate ==
    /\ Running("execute", "validated")
    /\ exc = "none"
    /\ IF _abort
       THEN /\ ExitExecute("returned", "none")
            /\ everyRerun' = FALSE
            /\ UNCHANGED <<session, sessions>>
       ELSE IF errors # <<>> /\ unit_test
       THEN /\ ExitExecute("raised", "Exception")
            /\ everyRerun' = FALSE
            /\ UNCHANGED <<session, sessions>>
       ELSE IF validate_opt
       THEN /\ ExitExecute("returned", "none")
            /\ everyRerun' = FALSE
            /\ UNCHANGED <<session, sessions>>
       ELSE /\ sessions' = Append(sessions, NewSession)
            /\ session' = Len(sessions) + 1
            /\ stack' = SetTop(stack, [Top EXCEPT !.pc = "loop", !.idx = 1])
            /\ UNCHANGED <<outcome, exc, everyRerun>>
    /\ UNCHANGED <<envVars, argVars, listVars, ctlVars, passVars, _rerun_count,
                   trace, completed, startCount, passes>>

\* an error raised by the abort phase that validate started leaves execute
ValidateRaise ==
    /\ Running("execute", "validated")
    /\ exc # "none"
    /\ ExitExecute("raised", exc)
    /\ everyRerun' = FALSE
    /\ UNCHANGED <<envVars, argVars, listVars, ctlVars, passVars, _rerun_count,
                   trace, session, sessions, completed, startCount, passes>>

\* lines 443-451: a phase in self.disabled_phases is skipped
SkipPhase ==
    /\ Running("execute", "loop")
    /\ Top.idx <= Len(feed_phases)
    /\ PhaseDisabled(feed_phases[Top.idx])
    /\ stack' = SetTop(stack, [Top EXCEPT !.idx = @ + 1])
    /\ UNCHANGED <<envVars, argVars, listVars, ctlVars, passVars, callVars,
                   _rerun_count, trace, session, exc>>

\* line 454: self.__run_phase(phase)
RunPhase ==
    /\ Running("execute", "loop")
    /\ Top.idx <= Len(feed_phases)
    /\ ~PhaseDisabled(feed_phases[Top.idx])
    /\ SetCtl(__run_phase(WithTop(Ctl, [Top EXCEPT !.pc = "in_phase"]),
                          feed_phases[Top.idx], None))
    /\ UNCHANGED <<envVars, argVars, listVars, callVars, errors, ops, last_call,
                   disabled_phases, _rerun, _rerun_count, trace, session, exc>>

\* line 458 left out: the phase loop goes on after an abort
AbortedAfterPhase_never == FALSE

\* line 458
AbortedAfterPhase == _abort

\* lines 456-459, after __run_phase returned
AfterPhase ==
    /\ Running("execute", "in_phase")
    /\ exc = "none"
    /\ IF AbortedAfterPhase
       THEN stack' = SetTop(stack, [Top EXCEPT !.pc = "finally", !.kind = "return"])
       ELSE stack' = SetTop(stack, [Top EXCEPT !.pc = "loop", !.idx = @ + 1])
    /\ UNCHANGED <<envVars, argVars, listVars, ctlVars, passVars, callVars,
                   _rerun_count, trace, session, exc>>

\* an error leaves __run_phase inside the try block
PhaseRaise ==
    /\ Running("execute", "in_phase")
    /\ exc # "none"
    /\ stack' = SetTop(stack, [Top EXCEPT !.pc = "finally", !.kind = "raise"])
    /\ UNCHANGED <<envVars, argVars, listVars, ctlVars, passVars, callVars,
                   _rerun_count, trace, session, exc>>

\* lines 461-463, the loop is over
Commit ==
    /\ Running("execute", "loop")
    /\ Top.idx > Len(feed_phases)
    /\ sessions' = SessionCommit(sessions, session)
    /\ completed' = completed + 1
    /\ stack' = SetTop(stack, [Top EXCEPT !.pc = "finally", !.kind = "normal"])
    /\ UNCHANGED <<envVars, argVars, listVars, ctlVars, passVars, _rerun_count,
                   trace, session, exc, outcome, startCount, passes, everyRerun>>

\* lines 464-466, finally: self.session.close()
Finally ==
    /\ Running("execute", "finally")
    /\ sessions' = SessionClose(sessions, session)
    /\ CASE Top.kind = "normal" ->
              /\ stack' = SetTop(stack, [Top EXCEPT !.pc = "rerun"])
              /\ UNCHANGED <<outcome, exc, everyRerun>>
         [] Top.kind = "return" ->
              /\ ExitExecute("returned", "none")
              /\ everyRerun' = FALSE
         [] Top.kind = "raise" ->
              /\ ExitExecute("raised", exc)
              /\ everyRerun' = FALSE
    /\ UNCHANGED <<envVars, argVars, listVars, ctlVars, passVars, _rerun_count,
                   trace, session, completed, startCount, passes>>

\* line 470 with > for >=
RerunLimitReached_late == _rerun_count > max_reruns

\* line 470
RerunLimitReached == _rerun_count >= max_reruns

\* line 469 left out: every pass that completes is run again
RerunRequested_always == TRUE

\* line 469
RerunRequested == _rerun

\* lines 469-477 when self._rerun is not set
NoRerun ==
    /\ Running("execute", "rerun")
    /\ ~RerunRequested
    /\ ExitExecute("returned", "none")
    /\ everyRerun' = FALSE
    /\ UNCHANGED <<envVars, argVars, listVars, ctlVars, passVars, _rerun_count,
                   trace, session, sessions, completed, startCount, passes>>

\* lines 470-473
RerunStop ==
    /\ Running("execute", "rerun")
    /\ RerunRequested
    /\ RerunLimitReached
    /\ _rerun_count' = 0
    /\ ExitExecute("returned", "none")
    /\ UNCHANGED <<envVars, argVars, listVars, ctlVars, passVars, trace,
                   session, sessions, completed, startCount, passes, everyRerun>>

\* lines 475-477: the recursive call of execute with the same arguments
Rerun ==
    /\ Running("execute", "rerun")
    /\ RerunRequested
    /\ ~RerunLimitReached
    /\ _rerun_count' = _rerun_count + 1
    /\ BeginPass(arg_disable_phases, arg_entries)
    /\ passes' = passes + 1
    /\ stack' = Append(SetTop(stack, [Top EXCEPT !.pc = "rerun_call"]), ExecuteFrame)
    /\ UNCHANGED <<envVars, argVars, exc, sessions, completed, outcome,
                   startCount, everyRerun>>

\* the recursive call is over: the caller ends the way it did
RerunReturn ==
    /\ Running("execute", "rerun_call")
    /\ IF exc = "none" THEN ExitExecute("returned", "none")
                       ELSE ExitExecute("raised", exc)
    /\ UNCHANGED <<envVars, argVars, listVars, ctlVars, passVars, _rerun_count,
                   trace, session, sessions, completed, startCount, passes,
                   everyRerun>>

----------------------------------------------------------------------------
(* A plugin method running: what it may do with the feed *)

InPlugin == Running("plugin", "body") /\ exc = "none"

\* the keyword of the method on top of the stack
Keyword == get_methods_by_phase(Top.phase)[Top.idx]

\* the method on top of the stack may make the call op now
CanCall(op) ==
    /\ InPlugin
    /\ ops < MaxOps
    /\ op \in Repertoire(Keyword)

\* line 232 without its test of self.accepted
AcceptAllowed_again(entry) == ~InList(entry, rejected)

\* line 232 without its test of self.rejected
AcceptAllowed_rejected(entry) == ~InList(entry, accepted)

\* line 232
AcceptAllowed(entry) == ~InList(entry, accepted) /\ ~InList(entry, rejected)

\* feed.accept(entry)
accept(entry) ==
    /\ CanCall("accept")
    /\ ops' = ops + 1
    /\ last_call' = <<"accept", entry>>
    /\ IF AcceptAllowed(entry)
       THEN /\ accepted' = Append(accepted, entry)
            /\ SetCtl(__run_phase(Ctl, "accept", entry))
       ELSE /\ accepted' = accepted
            /\ SetCtl(Ctl)
    /\ UNCHANGED <<envVars, argVars, callVars, entries, rejected, failed,
                   errors, disabled_phases, _rerun, _rerun_count, trace,
                   session, exc>>

\* line 242 left out: immortal entries are rejected like the others
IsImmortal_never(entry) == FALSE

\* line 242
IsImmortal(entry) == entry \in immortal

\* feed.reject(entry)
reject(entry) ==
    /\ CanCall("reject")
    /\ ops' = ops + 1
    /\ last_call' = <<"reject", entry>>
    /\ IF IsImmortal(entry)
       THEN /\ trace' = [trace EXCEPT ![entry] =
                            Append(@, <<current_plugin, "Tried to reject immortal">>)]
            /\ rejected' = rejected
            /\ SetCtl(Ctl)
       ELSE IF ~InList(entry, rejected)
       THEN /\ rejected' = Append(rejected, entry)
            /\ SetCtl(__run_phase(Ctl, "reject", entry))
            /\ trace' = trace
       ELSE /\ rejected' = rejected
            /\ SetCtl(Ctl)
            /\ trace' = trace
    /\ UNCHANGED <<envVars, argVars, callVars, entries, accepted, failed,
                   errors, disabled_phases, _rerun, _rerun_count, session, exc>>

\* feed.fail(entry)
fail(entry) ==
    /\ CanCall("fail")
    /\ ops' = ops + 1
    /\ last_call' = <<"fail", entry>>
    /\ IF ~InList(entry, failed)
       THEN /\ failed' = Append(failed, entry)
            /\ SetCtl(__run_phase(Ctl, "fail", entry))
       ELSE /\ failed' = failed
            /\ SetCtl(Ctl)
    /\ UNCHANGED <<envVars, argVars, callVars, entries, accepted, rejected,
                   errors, disabled_phases, _rerun, _rerun_count, trace,
                   session, exc>>

\* feed.abort()
abort ==
    /\ CanCall("abort")
    /\ ops' = ops + 1
    /\ last_call' = <<"abort", None>>
    /\ SetCtl(do_abort(Ctl))
    /\ UNCHANGED <<envVars, argVars, callVars, listVars, errors,
                   disabled_phases, _rerun, _rerun_count, trace, session, exc>>

\* feed.rerun()
rerun ==
    /\ CanCall("rerun")
    /\ ops' = ops + 1
    /\ last_call' = <<"rerun", None>>
    /\ _rerun' = TRUE
    /\ UNCHANGED <<envVars, argVars, callVars, listVars, errors, ran,
                   disabled_phases, _abort, current_phase, current_plugin,
                   _rerun_count, trace, session, exc, stack>>

\* feed.disable_phase(phase) of a valid phase
plugin_disable_phase(phase) ==
    /\ CanCall("disable_phase")
    /\ ops' = ops + 1
    /\ last_call' = <<"disable_phase", phase>>
    /\ disabled_phases' = disable_phase(disabled_phases, phase)
    /\ UNCHANGED <<envVars, argVars, callVars, listVars, errors, ran, _abort,
                   _rerun, current_phase, current_plugin, _rerun_count, trace,
                   session, exc, stack>>

\* what the method of an input plugin may return
Responses == {<<"e1">>, <<"e1", "e1">>, <<"e1", "e2">>}

\* lines 365-367 and 395-397: the lists once the method has returned response
AfterResponse(phase, response) ==
    PurgeAfter(phase, [Lists EXCEPT !.entries = @ \o response])

\* the method returns response
PluginReturn(response) ==
    /\ InPlugin
    /\ \/ response = <<>>
       \/ /\ "response" \in Repertoire(Keyword)
          /\ Top.phase \notin entry_events
    /\ SetLists(AfterResponse(Top.phase, response))
    /\ stack' = SetTop(Pop(stack), [stack[Len(stack) - 1] EXCEPT !.pc = "check"])
    /\ UNCHANGED <<envVars, argVars, callVars, ctlVars, passVars,
                   _rerun_count, trace, session, exc>>

ExceptionKinds == {"PluginWarning", "EntryUnicodeError", "PluginError",
                   "DependencyError", "Exception"}

\* the method raises an error, which its __run_phase catches
PluginRaise(kind) ==
    /\ InPlugin
    /\ "raise" \in Repertoire(Keyword)
    /\ SetCtl(Catch([Ctl EXCEPT !.stack = Pop(@)], kind))
    /\ SetLists(CatchLists(Top.phase, kind))
    /\ UNCHANGED <<envVars, argVars, callVars, errors, ops, last_call, disabled_phases,
                   _rerun, _rerun_count, trace, session, exc>>

\* an error raised by a call into the feed passes through the method, which
\* does not catch it, and is caught by its __run_phase
PluginPropagate ==
    /\ Running("plugin", "body")
    /\ exc # "none"
    /\ exc' = "none"
    /\ SetCtl(Catch([Ctl EXCEPT !.stack = Pop(@)], exc))
    /\ SetLists(CatchLists(Top.phase, exc))
    /\ UNCHANGED <<envVars, argVars, callVars, errors, ops, last_call, disabled_phases,
                   _rerun, _rerun_count, trace, session>>

----------------------------------------------------------------------------
(* The specification *)

\* the arguments of the top-level calls of execute
ExecuteArgs == {<< <<>>, <<>> >>,
                << <<"output">>, <<"e1", "e1">> >>,
                << <<"bogus">>, <<>> >>}

\* a new Feed
FeedInit ==
    /\ unit_test \in BOOLEAN
    /\ validate_opt \in BOOLEAN
    /\ config \in Configs
    /\ immortal = {"e2"}
    /\ _rerun_count = 0
    /\ session = _reset.session
    /\ entries = _reset.entries
    /\ accepted = _reset.accepted
    /\ rejected = _reset.rejected
    /\ failed = _reset.failed
    /\ disabled_phases = _reset.disabled_phases
    /\ _abort = _reset._abort
    /\ _rerun = _reset._rerun
    /\ current_phase = _reset.current_phase
    /\ current_plugin = _reset.current_plugin
    /\ trace = [e \in Entries |-> <<>>]
    /\ stack = <<>>
    /\ exc = "none"
    /\ errors = <<>>
    /\ arg_disable_phases = <<>>
    /\ arg_entries = <<>>
    /\ sessions = <<>>
    /\ completed = 0
    /\ ran = {}
    /\ ops = 0
    /\ last_call = <<>>
    /\ outcome = "none"
    /\ startCount = 0
    /\ passes = 0
    /\ everyRerun = FALSE

\* a new Feed; no Entry is followed
Init ==
    /\ FeedInit
    /\ fields = <<>>
    /\ first_url = NoValue
    /\ entry_exc = "none"

Next ==
    \/ \E a \in ExecuteArgs : execute(a[1], a[2])
    \/ validate
    \/ AfterValidate
    \/ ValidateRaise
    \/ SkipPhase
    \/ RunPhase
    \/ AfterPhase
    \/ PhaseRaise
    \/ Commit
    \/ Finally
    \/ NoRerun
    \/ RerunStop
    \/ Rerun
    \/ RerunReturn
    \/ CheckAbort
    \/ HandlerDone
    \/ HandlerRaise
    \/ \E entry \in Entries : accept(entry)
    \/ \E entry \in Entries : reject(entry)
    \/ \E entry \in Entries : fail(entry)
    \/ abort
    \/ rerun
    \/ \E phase \in {"filter", "output"} : plugin_disable_phase(phase)
    \/ \E response \in Responses \cup {<<>>} : PluginReturn(response)
    \/ \E kind \in ExceptionKinds : PluginRaise(kind)
    \/ PluginPropagate

Spec == Init /\ [][Next]_vars

----------------------------------------------------------------------------
(* The operations on one Entry *)

\* a new Entry
EntryInit ==
    /\ FeedInit
    /\ unit_test = FALSE
    /\ validate_opt = FALSE
    /\ config = GoodConfig
    /\ fields \in NewEntries
    /\ first_url = IF "url" \in DOMAIN fields THEN fields["url"] ELSE NoValue
    /\ entry_exc = "none"

\* entry[key] = value
__setitem__(key, value) ==
    /\ SetItemError(key, value) = "none"
    /\ fields' = SetItem(fields, key, value)
    /\ first_url' = IF key = "url" /\ first_url = NoValue
                     THEN fields'["url"] ELSE first_url
    /\ entry_exc' = "none"
    /\ UNCHANGED feedVars

\* entry[key] = value raises an error and leaves the dict as it is
SetItemRaises(key, value) ==
    /\ SetItemError(key, value) # "none"
    /\ entry_exc' = SetItemError(key, value)
    /\ UNCHANGED <<feedVars, fields, first_url>>

EntryNext ==
    \/ \E key \in Keys, value \in Values : __setitem__(key, value)
    \/ \E key \in Keys, value \in Values : SetItemRaises(key, value)

EntrySpec == EntryInit /\ [][EntryNext]_vars

----------------------------------------------------------------------------
(* Vocabulary of the properties *)

MainPhases == {feed_phases[i] : i \in 1..Len(feed_phases)}

\* the keywords of the methods of the main-sequence phases
MainPlugins ==
    {k \in known_plugins :
        \E ph \in MainPhases : InList(k, get_methods_by_phase(ph))}

\* this step calls a plugin method of one of the phases
Invokes(phases) ==
    /\ Len(stack') > Len(stack)
    /\ stack'[Len(stack')].fn = "plugin"
    /\ stack'[Len(stack')].phase \in phases

\* this step is the call method(arg) a plugin makes into the feed
Called(method, arg) ==
    /\ ops' = ops + 1
    /\ last_call' = <<method, arg>>

\* the top-level call is over and returned to its caller
Returned == stack = <<>> /\ outcome = "returned"

\* the top-level call is over and raised an error to its caller
Raised == stack = <<>> /\ outcome = "raised"

\* the unit of work of the current pass was committed
Committed == session # 0 /\ sessions[session].committed

----------------------------------------------------------------------------
(* C1..C10 *)

\* C1: a plugin of a main-sequence phase is only ever invoked while the abort
\* flag is unset: once a plugin has set the flag, neither the rest of its
\* phase nor any later phase of the pass runs.
C1_NoPluginAfterAbort ==
    [][Invokes(MainPhases) => ~_abort /\ ~_abort']_vars

\* the filter plugin flt set the abort flag; the pass ended without seen,
\* the next plugin of that phase, and without out, of the next phase
C1_Witness ==
    /\ Returned
    /\ _abort
    /\ disabled_phases = <<>>
    /\ "flt" \in ran
    /\ "seen" \notin ran
    /\ "out" \notin ran

\* C2: in a pass whose abort flag is set, the session is not committed and the
\* pass-completed notification is not fired.
C2_AbortNeverCommits ==
    _abort => ~Committed /\ completed < passes

\* a plugin of the last phase set the flag: the pass is over, its session
\* closed and not committed
C2_Witness ==
    /\ Returned
    /\ _abort
    /\ "out" \in ran
    /\ session # 0
    /\ sessions[session].closed
    /\ ~sessions[session].committed

\* C3: a call that began with the rerun counter at zero runs at most
\* max_reruns + 1 passes, and when every pass asked for a rerun it runs exactly
\* that many and leaves the counter at zero.
C3_RerunBound ==
    /\ startCount = 0 => passes <= max_reruns + 1
    /\ Returned /\ startCount = 0 /\ everyRerun =>
          passes = max_reruns + 1 /\ _rerun_count = 0

C3_Witness ==
    /\ Returned
    /\ startCount = 0
    /\ everyRerun
    /\ passes = max_reruns + 1
    /\ completed = max_reruns + 1

\* no entry of failed is in entries, accepted or rejected; no entry of
\* rejected is in entries or accepted
PurgedLists ==
    \A e \in Entries :
        /\ InList(e, failed) =>
              ~InList(e, entries) /\ ~InList(e, accepted) /\ ~InList(e, rejected)
        /\ InList(e, rejected) =>
              ~InList(e, entries) /\ ~InList(e, accepted)

\* C4: immediately after purge() the lists are purged.
C4_PurgePostcondition ==
    Running("run_phase", "check") /\ Top.phase \notin entry_events => PurgedLists

\* C5: when validation reports errors, the abort flag is set, no plugin of a
\* main-sequence phase runs, no session is opened or committed and no rerun
\* starts.
C5_InvalidConfigAborts ==
    errors # <<>> =>
        /\ _abort
        /\ ran \cap MainPlugins = {}
        /\ session = 0
        /\ sessions = <<>>
        /\ completed = 0
        /\ passes = 1

\* a configuration with two errors: the call is over
C5_Witness ==
    /\ Returned
    /\ Len(errors) = 2
    /\ "on_abort" \in ran

\* C6: in strict test-execution mode a call whose validation reports errors
\* ends by raising to its caller.
C6_StrictModeRaises ==
    unit_test /\ errors # <<>> /\ stack = <<>> => outcome = "raised"

\* C7: every top-level call of execute begins with the rerun counter at zero.
C7_TopLevelStartsAtZero ==
    stack # <<>> => startCount = 0

\* C8: reject of an immortal entry leaves rejected, accepted and entries as
\* they are, runs no plugin and appends one trace message to the entry; an
\* immortal entry is never in rejected.
C8_ImmortalNeverRejected ==
    /\ [](\A e \in immortal : ~InList(e, rejected))
    /\ [][\A e \in immortal :
            Called("reject", e) =>
                /\ UNCHANGED <<entries, accepted, rejected, failed>>
                /\ UNCHANGED <<stack, ran, _abort>>
                /\ trace' = [trace EXCEPT ![e] =
                                Append(@, <<current_plugin, "Tried to reject immortal">>)]
         ]_vars

C8_Witness ==
    /\ last_call = <<"reject", "e2">>
    /\ "e2" \in immortal
    /\ Len(trace["e2"]) = 1
    /\ InList("e2", entries)

\* C9: accept appends the entry to accepted and runs the accept phase exactly
\* when the entry is in neither accepted nor rejected; otherwise, and so for a
\* rejected entry, it changes nothing and runs no plugin.
C9_AcceptOnlyUndecided ==
    [][\A e \in Entries :
          Called("accept", e) =>
              IF ~InList(e, accepted) /\ ~InList(e, rejected)
              THEN /\ accepted' = Append(accepted, e)
                   /\ Invokes({"accept"})
                   /\ stack'[Len(stack')].entry = e
              ELSE /\ UNCHANGED <<entries, accepted, rejected, failed>>
                   /\ UNCHANGED <<stack, ran>>
      ]_vars

\* accept was called on the rejected entry e1
C9_Witness ==
    /\ last_call = <<"accept", "e1">>
    /\ InList("e1", rejected)
    /\ ~InList("e1", accepted)
    /\ "on_acc" \notin ran

\* C10: a session that is not closed belongs to a pass whose execute frame is
\* still inside its try block: every way out of execute closes it first.
C10_SessionClosedOnExit ==
    \A i \in 1..Len(sessions) :
        ~sessions[i].closed =>
            /\ Len(stack) >= i
            /\ stack[i].fn = "execute"
            /\ stack[i].pc \in {"loop", "in_phase", "finally"}

\* strict mode: an unexpected plugin error left execute, the session is closed
C10_Witness ==
    /\ Raised
    /\ unit_test
    /\ sessions # <<>>
    /\ \A i \in 1..Len(sessions) : sessions[i].closed

----------------------------------------------------------------------------
(* C11..C20 *)

\* this step starts the abort phase: it calls the first of its methods
AbortPhaseStarts ==
    /\ Invokes({"abort"})
    /\ stack'[Len(stack')].idx = NextMethod("abort", 1)

\* this step starts a pass: a top-level call or a rerun
PassStarts == stack = <<>> \/ passes' = passes + 1

HasNextMethod ==
    /\ Running("run_phase", "check")
    /\ ~AbortCheck(Top.phase)
    /\ ~InList(Top.phase, disabled_phases)
    /\ NextMethod(Top.phase, Top.idx + 1) <= Len(get_methods_by_phase(Top.phase))

\* this step calls the next selected method of the run_phase frame on top
CallsNextMethod ==
    /\ Invokes({Top.phase})
    /\ stack'[Len(stack')].idx = NextMethod(Top.phase, Top.idx + 1)
    /\ stack'[Len(stack')].entry = Top.entry

\* C12: a PluginWarning raised by a method leaves the abort flag as it is and
\* takes its __run_phase to the purge and the check that follow a normal
\* return, after which the next method of the phase is called; an
\* EntryUnicodeError, PluginError, DependencyError or other Exception raised
\* by a method sets the abort flag.
C12_ErrorClasses ==
    /\ [][PluginRaise("PluginWarning") =>
            /\ _abort' = _abort
            /\ Len(stack') = Len(stack) - 1
            /\ stack'[Len(stack')].pc = "check"]_vars
    /\ [][Running("run_phase", "check") /\ Top.kind = "PluginWarning"
             /\ HasNextMethod => CallsNextMethod]_vars
    /\ [][\A kind \in ExceptionKinds \ {"PluginWarning"} :
             PluginRaise(kind) => _abort']_vars

\* flt raised a warning: the flag is unset and seen, the next method of the
\* filter phase, is running
C12_Witness ==
    /\ Running("plugin", "body")
    /\ Keyword = "seen"
    /\ stack[Len(stack) - 1].kind = "PluginWarning"
    /\ ~_abort

\* the methods of the abort phase that line 340 selects
AbortPlugins ==
    {get_methods_by_phase("abort")[i] : i \in
        {j \in 1..Len(get_methods_by_phase("abort")) :
            Selected(get_methods_by_phase("abort")[j])}}

\* the first of them
FirstAbortPlugin == get_methods_by_phase("abort")[NextMethod("abort", 1)]

\* an error of a plugin is on its way out of __run_phase, or has left the
\* top-level call (which no plugin ran in when its arguments were invalid)
PluginErrorEscapes == exc # "none" \/ (Raised /\ ran # {})

\* C13: an error of a plugin leaves __run_phase, and so execute, only in
\* strict mode, only if it is an unexpected Exception, and only once the abort
\* flag is set and the abort phase has been started.
C13_ErrorsContained ==
    /\ exc \in {"none", "Exception"}
    /\ PluginErrorEscapes =>
          /\ unit_test
          /\ _abort
          /\ FirstAbortPlugin \in ran

\* C13 as stated: ... and only once every method of the abort phase has run.
C13_AbortPhaseComplete ==
    PluginErrorEscapes =>
        /\ unit_test
        /\ _abort
        /\ AbortPlugins \subseteq ran

\* strict mode: a plugin of the filter phase was running, the abort phase ran
\* to its end and the call raised
C13_Witness ==
    /\ Raised
    /\ unit_test
    /\ _abort
    /\ "flt" \in ran
    /\ "out" \notin ran
    /\ AbortPlugins \subseteq ran
    /\ errors = <<>>

\* the positions after idx of the methods of the phase whose plugin is
\* configured for the feed or builtin
ConfiguredAfter(phase, idx) ==
    {j \in (idx + 1)..Len(get_methods_by_phase(phase)) :
        \/ InConfig(get_methods_by_phase(phase)[j])
        \/ get_methods_by_phase(phase)[j] \in builtin}

Least(S) == CHOOSE j \in S : \A k \in S : j <= k

\* this step calls, with the entry, the first configured or builtin method of
\* the phase after position idx; it leaves the stack alone if there is none
CallsConfiguredAfter(phase, idx, entry) ==
    IF ConfiguredAfter(phase, idx) = {}
    THEN UNCHANGED stack
    ELSE /\ Invokes({phase})
         /\ stack'[Len(stack')].idx = Least(ConfiguredAfter(phase, idx))
         /\ stack'[Len(stack')].entry = entry

\* this step is a call of accept, reject or fail that runs the phase for entry
RunsEntryEvent(phase, entry) ==
    CASE phase = "accept" ->
            /\ Called("accept", entry)
            /\ ~InList(entry, accepted) /\ ~InList(entry, rejected)
      [] phase = "reject" ->
            /\ Called("reject", entry)
            /\ entry \notin immortal /\ ~InList(entry, rejected)
      [] phase = "fail" ->
            /\ Called("fail", entry)
            /\ ~InList(entry, failed)

\* C14: an accept, reject or fail phase run for an entry calls, in registry
\* order and each once with that entry, the methods whose plugin is configured
\* for the feed or builtin, and stops after the first of them that returns
\* with the abort flag set.
C14_EntryEventMethods ==
    /\ [][\A phase \in entry_events : \A entry \in Entries :
            RunsEntryEvent(phase, entry) =>
                CallsConfiguredAfter(phase, 0, entry)]_vars
    /\ [][Running("run_phase", "check") /\ Top.phase \in entry_events =>
            IF ~_abort /\ ConfiguredAfter(Top.phase, Top.idx) # {}
            THEN CallsConfiguredAfter(Top.phase, Top.idx, Top.entry)
            ELSE stack' = Pop(stack)]_vars

\* C14 as stated: when an accept, reject or fail phase returns, every method
\* registered for it has been called.
C14_AllRegisteredRun ==
    [][Running("run_phase", "check") /\ Top.phase \in entry_events
          /\ stack' = Pop(stack) =>
            \A i \in 1..Len(get_methods_by_phase(Top.phase)) :
                get_methods_by_phase(Top.phase)[i] \in ran]_vars

\* flt called abort and then reject(e1): the reject phase called rej_log,
\* returned without calling on_rej, and flt is running again
C14_Witness ==
    /\ Running("plugin", "body")
    /\ Keyword = "flt"
    /\ last_call = <<"reject", "e1">>
    /\ InList("e1", rejected)
    /\ _abort
    /\ "rej_log" \in ran
    /\ "on_rej" \notin ran
    /\ InConfig("on_rej")

\* C15: once the url of an entry has held a value, original_url is the first
\* value it held, whether given to the constructor or set later.
C15_OriginalUrlIsFirst ==
    first_url # NoValue =>
        /\ "original_url" \in DOMAIN fields
        /\ fields["original_url"] = first_url

\* this step starts a rerun: the recursive call of execute at line 477
RerunStarts == stack # <<>> /\ passes' = passes + 1

\* C16: a rerun starts only when a plugin asked for one in the pass that just
\* ended and that pass did not abort (its session was committed); while the
\* abort flag is set the rerun counter does not change.
C16_RerunOnlyAfterCleanPass ==
    /\ [][RerunStarts =>
            /\ _rerun
            /\ ~_abort
            /\ Committed
            /\ _rerun_count' = _rerun_count + 1]_vars
    /\ [][_abort => _rerun_count' = _rerun_count]_vars

\* the output plugin asked for a rerun and then aborted: the call is over
\* after one pass
C16_Witness ==
    /\ Returned
    /\ _abort
    /\ _rerun
    /\ "out" \in ran
    /\ passes = 1
    /\ _rerun_count = startCount

\* C17: no method of a main-sequence phase is called while the phase is in
\* disabled_phases.  execute passes over a disabled phase without a call of
\* __run_phase and runs an enabled one; a __run_phase whose phase was disabled
\* while one of its methods ran returns without calling the remaining ones.
C17_DisabledPhaseNotRun ==
    /\ [][\A phase \in MainPhases :
            Invokes({phase}) => ~InList(phase, disabled_phases)]_vars
    /\ [][Running("execute", "loop") /\ Top.idx <= Len(feed_phases) =>
            IF InList(feed_phases[Top.idx], disabled_phases)
            THEN stack' = SetTop(stack, [Top EXCEPT !.idx = @ + 1])
            ELSE /\ Len(stack') > Len(stack)
                 /\ stack'[Len(stack)].pc = "in_phase"
                 /\ stack'[Len(stack) + 1].phase = feed_phases[Top.idx]]_vars
    /\ [][Running("run_phase", "check") /\ Top.phase \in MainPhases
             /\ InList(Top.phase, disabled_phases) =>
            stack' = Pop(stack)]_vars

\* flt disabled the filter phase while it ran: seen, the next method of the
\* phase, was not called, and the output phase ran
C17_Witness ==
    /\ InList("filter", disabled_phases)
    /\ "flt" \in ran
    /\ "seen" \notin ran
    /\ Running("plugin", "body")
    /\ Keyword = "out"
    /\ ~_abort

\* C18: whenever a method of a main-sequence phase is called, the lists are
\* purged: no entry of rejected or failed is in entries or accepted and no
\* entry of failed is in rejected.
C18_PurgedBeforePlugin ==
    [][Invokes(MainPhases) => PurgedLists']_vars

\* a call of __run_phase('abort') is on the stack
InAbortPhase ==
    \E i \in 1..Len(stack) : stack[i].fn = "run_phase" /\ stack[i].phase = "abort"

ListOf(phase, f) ==
    CASE phase = "accept" -> f.accepted
      [] phase = "reject" -> f.rejected
      [] phase = "fail"   -> f.failed

\* the lists after this step
ListsAfter == [entries |-> entries', rejected |-> rejected',
               accepted |-> accepted', failed |-> failed']

\* C20: accepted, rejected and failed never hold an entry twice, and a call
\* of accept, reject or fail starts its phase for an entry only in the step
\* in which the entry, not in the list before, is appended to it.
C20_NoDuplicateDecisions ==
    /\ [](NoDuplicates(accepted) /\ NoDuplicates(rejected) /\ NoDuplicates(failed))
    /\ [][\A phase \in entry_events :
            InPlugin /\ Invokes({phase}) =>
                /\ ~InList(stack'[Len(stack')].entry, ListOf(phase, Lists))
                /\ ListOf(phase, ListsAfter) =
                      Append(ListOf(phase, Lists), stack'[Len(stack')].entry)]_vars

\* flt has called accept(e1) twice: e1 is in accepted once
C20_Witness ==
    /\ Running("plugin", "body")
    /\ Keyword = "flt"
    /\ ops = 2
    /\ last_call = <<"accept", "e1">>
    /\ accepted = <<"e1">>
    /\ ran = {"inp", "flt", "on_acc"}
    /\ rejected = <<>>
    /\ failed = <<>>
    /\ disabled_phases = <<>>
    /\ ~_abort
    /\ trace["e2"] = <<>>

----------------------------------------------------------------------------
(* C21 *)

\* the sessions of the running call that are not closed
OpenSessions == {i \in 1..Len(sessions) : ~sessions[i].closed}

\* this step calls commit() on session i
CommitsSession(i) ==
    /\ i <= Len(sessions')
    /\ sessions'[i].committed
    /\ ~sessions[i].committed

\* C21: over the passes of one top-level call at most one session is open at
\* any time, and it is the session of the current pass; a rerun starts with
\* every session closed; commit is only called on a session that is open.
C21_OneSessionOpen ==
    /\ [](Cardinality(OpenSessions) <= 1 /\ OpenSessions \subseteq {session})
    /\ [][RerunStarts => OpenSessions = {}]_vars
    /\ [][\A i \in 1..Len(sessions) :
            CommitsSession(i) => ~sessions[i].closed /\ i = session]_vars

\* the second pass of a call is running with its own session open; the
\* session of the first pass is committed and closed
C21_Witness ==
    /\ passes = 2
    /\ Len(sessions) = 2
    /\ sessions[1].committed
    /\ sessions[1].closed
    /\ session = 2
    /\ OpenSessions = {2}
    /\ Running("plugin", "body")

====
